---- MODULE Spec2Model ----
(***************************************************************************)
(* gcs-backup: the concurrent batch upload of main.go.                     *)
(*                                                                         *)
(* main() walks the configured directories into the manifest filesToCopy,  *)
(* then copyFiles() computes the number of goroutines, hands every         *)
(* goroutine an index range [start, end] of the manifest, waits for all of *)
(* them on a sync.WaitGroup and prints the totals.  Every goroutine        *)
(* uploads the files of its range one after the other and counts the       *)
(* result in totalFilesOK / totalFilesError under a sync.Mutex.            *)
(*                                                                         *)
(* Go indexes the manifest from 0; filesToCopy is a TLA+ sequence, so the  *)
(* element at Go index n is filesToCopy[n + 1].                            *)
(***************************************************************************)
EXTENDS Integers, Sequences, FiniteSets

(***************************************************************************)
(* Bounds of the model.                                                    *)
(***************************************************************************)
\* Longest manifest the directory walk builds in Spec.
MaxFiles == 4
\* A scaled-down files-per-goroutine value, next to the source's 20, so that
\* a manifest of at most MaxFiles files is split over several goroutines.
SmallBatch == 2
\* Longest manifest and largest scaled batch size of the partition-only
\* specification SpecPart.
MaxManifest == 70
MaxBatch == 4

\* var processFilesForGoRoutine int = 20
DefaultBatch == 20

\* Values of processFilesForGoRoutine the two specifications run with.
BatchSizes == {SmallBatch, DefaultBatch}
PartBatchSizes == (1..MaxBatch) \cup {DefaultBatch}

(***************************************************************************)
(* Results of the calls into the operating system and the storage client.  *)
(* os.Stat can fail with an error os.IsNotExist accepts, or with another   *)
(* one (permission, I/O); the other calls either succeed or fail.  A       *)
(* transfer also fails when the file's 50 s timeout context expires.       *)
(***************************************************************************)
StatResults == {"nil", "ErrNotExist", "ErrOther"}
OpenResults == {"nil", "ErrOpen"}
CopyResults == {"nil", "ErrCopy", "ErrDeadline"}
CloseResults == {"nil", "ErrClose", "ErrDeadline"}
ClientResults == {"nil", "ErrClient"}

NoOwner == -1

VARIABLES
    pc,                        \* where main / copyFiles stands
    exitCode,                  \* -1 while running, else the os.Exit code
    clientErr,                 \* copyFiles local err of storage.NewClient
    processFilesForGoRoutine,  \* copyFiles local
    filesToCopy,               \* global manifest
    totalFilesToCopy,          \* global
    totalFilesOK,              \* global counter
    totalFilesError,           \* global counter
    goRoutines,                \* copyFiles local
    wg,                        \* sync.WaitGroup counter
    mutex,                     \* sync.Mutex: NoOwner or the goroutine holding it
    i,                         \* loop variable of the dispatch loop
    start,                     \* copyFiles local
    end,                       \* copyFiles local
    gor,                       \* the goroutines: id -> record of its locals
    report,                    \* <<>> or the summary printed at the end
    visits,                    \* history: how often each manifest index was read
    nOpened,                   \* history: files not reported missing and opened
    nStatOKOpened              \* history: files whose os.Stat succeeded and opened

vars == <<pc, exitCode, clientErr, processFilesForGoRoutine, filesToCopy, totalFilesToCopy,
          totalFilesOK, totalFilesError, goRoutines, wg, mutex, i, start, end,
          gor, report, visits, nOpened, nStatOKOpened>>

(***************************************************************************)
(* Pure parts of copyFiles.                                                *)
(***************************************************************************)
\* Mutant: the error of storage.NewClient is not noticed.
ClientFailedNever(err) == FALSE

\* if err != nil after storage.NewClient
ClientFailed(err) == err # "nil"

\* Mutant: wg.Add(1) instead of wg.Add(goRoutines).
WgAddOne(w, k) == w + 1

\* Mutant: wg.Add(goRoutines + 1).
WgAddOneMore(w, k) == w + k + 1

\* wg.Add(k) on a counter that stands at w
WgAdd(w, k) == w + k

\* Mutant: truncation instead of math.Round.
RoundTrunc(m, b) == m \div b

\* Mutant: rounding up instead of math.Round.
RoundCeil(m, b) == (m + b - 1) \div b

\* math.Round(float64(m) / float64(b)) for m >= 0, b >= 1: the nearest
\* integer, halves rounded away from zero.
Round(m, b) == (2 * m + b) \div (2 * b)

\* goRoutines := int(math.Round(...)); if goRoutines == 0 { goRoutines = 1 }
GoRoutines(m, b) == IF Round(m, b) = 0 THEN 1 ELSE Round(m, b)

\* Mutant: a unit starts on the previous unit's last index.
NextStartOverlap(k, w, e) == IF w = 1 \/ k = 0 THEN 0 ELSE e

\* The value the k-th iteration of the dispatch loop assigns to start, given
\* the number of goroutines w and the value e that end has from iteration k-1.
NextStart(k, w, e) ==
    IF w = 1 THEN 0
    ELSE IF k = 0 THEN 0
    ELSE e + 1

\* Mutant: the units other than the last are one index too long.
NextEndLong(k, w, s, b, len) ==
    IF w = 1 THEN len - 1
    ELSE IF k = 0 THEN b
    ELSE IF k = w - 1 THEN len - 1
    ELSE s + b

\* Mutant: the last unit ends at len(filesToCopy) instead of len - 1.
NextEndPastLast(k, w, s, b, len) ==
    IF w = 1 THEN len
    ELSE IF k = 0 THEN b - 1
    ELSE IF k = w - 1 THEN len
    ELSE (s + b) - 1

\* The value the k-th iteration assigns to end, given the start s it has just
\* assigned, the batch size b and len(filesToCopy).
NextEnd(k, w, s, b, len) ==
    IF w = 1 THEN len - 1
    ELSE IF k = 0 THEN b - 1
    ELSE IF k = w - 1 THEN len - 1
    ELSE (s + b) - 1

\* Mutant: the worker loop runs one index past end.
LoopCondPastEnd(n, e) == n <= e + 1

\* Mutant: the loop stops before the last index of the range.
LoopCondBeforeEnd(n, e) == n < e

\* for n := start; n <= end; n++
LoopCond(n, e) == n <= e

\* Mutant: the loop variable advances by two.
LoopPostTwo(n) == n + 2

\* The post statement n++ of the goroutine's loop.
LoopPost(n) == n + 1

\* Mutant: a missing file is not recognised.
IsNotExistNever(err) == FALSE

\* os.IsNotExist(err)
IsNotExist(err) == err = "ErrNotExist"

\* Mutant: a failed os.Open is not noticed.
OpenFailedNever(err) == FALSE

\* if err != nil after os.Open
OpenFailed(err) == err # "nil"

\* Mutant: the failure blocks increment totalFilesOK.
CounterForAlwaysOK(res) == "OK"

\* Which counter the block reached with result res increments.
CounterFor(res) == IF res = "ok" THEN "OK" ELSE "Error"

\* Mutant: Lock does not wait for the holder.
MutexFreeAlways == TRUE

\* mutex.Lock() returns only when nobody holds the mutex.
MutexFree == mutex = NoOwner

\* Mutant: Wait does not wait.
WaitReadyAlways == TRUE

\* wg.Wait() returns when the counter is zero.
WaitReady == wg = 0

(***************************************************************************)
(* Goroutine records.                                                      *)
(***************************************************************************)
\* A goroutine the dispatch loop has not started yet.
NotStarted ==
    [pc |-> "none", start |-> 0, end |-> 0, n |-> 0, err |-> "nil",
     res |-> "", reg |-> 0, f |-> FALSE, ctx |-> FALSE, live |-> FALSE,
     logged |-> <<>>,
     incOK |-> 0, incErr |-> 0, tally |-> 0]

\* go func(start, end int) {...}(s, e)
Started(s, e) == [NotStarted EXCEPT !.pc = "for", !.start = s, !.end = e, !.n = s]

Ids == DOMAIN gor

\* Mutant: the timeout context is derived from the one this goroutine made
\* for its previous upload, which it has cancelled since.
ParentDoneAfterFirst(id) == gor[id].tally > 0

\* Whether the parent of the timeout context goroutine id derives for a file
\* is already done.  The ctx of context.WithTimeout(ctx, ...) is copyFiles'
\* ctx := context.Background(): the := in the loop body declares a new ctx on
\* every iteration, and the background context is never cancelled and has no
\* deadline.
ParentDone(id) == FALSE

Running == exitCode = -1 /\ pc # "panic"

(***************************************************************************)
(* Initial states.                                                         *)
(***************************************************************************)
InitCommon ==
    /\ exitCode = -1
    /\ totalFilesOK = 0
    /\ totalFilesError = 0
    /\ goRoutines = 0
    /\ wg = 0
    /\ mutex = NoOwner
    /\ i = 0
    /\ start = 0
    /\ end = 0
    /\ gor = <<>>
    /\ report = <<>>
    /\ nOpened = 0
    /\ nStatOKOpened = 0

\* The program at the call of getFilesToCopy.
Init ==
    /\ InitCommon
    /\ pc = "getFilesToCopy"
    /\ clientErr = "unset"
    /\ processFilesForGoRoutine \in BatchSizes
    /\ filesToCopy = <<>>
    /\ totalFilesToCopy = 0
    /\ visits = <<>>

\* copyFiles after the client was built, for every manifest length and batch
\* size of the partition-only specification.
InitPart ==
    /\ InitCommon
    /\ pc = "goRoutines"
    /\ clientErr = "nil"
    /\ processFilesForGoRoutine \in PartBatchSizes
    /\ \E m \in 0..MaxManifest :
          /\ filesToCopy = [k \in 1..m |-> k]
          /\ totalFilesToCopy = m
          /\ visits = [k \in 1..m |-> 0]

(***************************************************************************)
(* main and copyFiles.                                                     *)
(***************************************************************************)
\* filepath.Walk callback: one regular file found.
WalkFile ==
    /\ Running /\ pc = "getFilesToCopy"
    /\ Len(filesToCopy) < MaxFiles
    /\ filesToCopy' = Append(filesToCopy, Len(filesToCopy) + 1)
    /\ totalFilesToCopy' = totalFilesToCopy + 1
    /\ UNCHANGED <<clientErr, pc, exitCode, processFilesForGoRoutine, totalFilesOK,
                   totalFilesError, goRoutines, wg, mutex, i, start, end, gor,
                   report, visits, nOpened, nStatOKOpened>>

\* filepath.Walk returned an error: os.Exit(1).
WalkError ==
    /\ Running /\ pc = "getFilesToCopy"
    /\ pc' = "exit"
    /\ exitCode' = 1
    /\ UNCHANGED <<clientErr, processFilesForGoRoutine, filesToCopy, totalFilesToCopy,
                   totalFilesOK, totalFilesError, goRoutines, wg, mutex, i,
                   start, end, gor, report, visits, nOpened, nStatOKOpened>>

\* getFilesToCopy returns; main calls copyFiles.
WalkReturn ==
    /\ Running /\ pc = "getFilesToCopy"
    /\ pc' = "NewClient"
    /\ visits' = [k \in 1..Len(filesToCopy) |-> 0]
    /\ UNCHANGED <<clientErr, exitCode, processFilesForGoRoutine, filesToCopy,
                   totalFilesToCopy, totalFilesOK, totalFilesError, goRoutines,
                   wg, mutex, i, start, end, gor, report, nOpened,
                   nStatOKOpened>>

\* storage.NewClient: on an error the run ends with os.Exit(1).
NewClient ==
    /\ Running /\ pc = "NewClient"
    /\ \E err \in ClientResults :
          /\ clientErr' = err
          /\ IF ClientFailed(err)
             THEN pc' = "exit" /\ exitCode' = 1
             ELSE pc' = "goRoutines" /\ exitCode' = exitCode
    /\ UNCHANGED <<processFilesForGoRoutine, filesToCopy, totalFilesToCopy,
                   totalFilesOK, totalFilesError, goRoutines, wg, mutex, i,
                   start, end, gor, report, visits, nOpened, nStatOKOpened>>

\* goRoutines := ...; wg.Add(goRoutines); i := 0
ComputeGoRoutines ==
    /\ Running /\ pc = "goRoutines"
    /\ goRoutines' = GoRoutines(totalFilesToCopy, processFilesForGoRoutine)
    /\ wg' = WgAdd(wg, goRoutines')
    /\ gor' = [id \in 0..(goRoutines' - 1) |-> NotStarted]
    /\ i' = 0
    /\ pc' = "for"
    /\ UNCHANGED <<clientErr, exitCode, processFilesForGoRoutine, filesToCopy,
                   totalFilesToCopy, totalFilesOK, totalFilesError, mutex,
                   start, end, report, visits, nOpened, nStatOKOpened>>

\* One iteration of the dispatch loop: compute start and end, start the
\* goroutine with them, i++.
Dispatch ==
    /\ Running /\ pc = "for"
    /\ i < goRoutines
    /\ start' = NextStart(i, goRoutines, end)
    /\ end' = NextEnd(i, goRoutines, start', processFilesForGoRoutine,
                      Len(filesToCopy))
    /\ gor' = [gor EXCEPT ![i] = Started(start', end')]
    /\ i' = i + 1
    /\ UNCHANGED <<clientErr, pc, exitCode, processFilesForGoRoutine, filesToCopy,
                   totalFilesToCopy, totalFilesOK, totalFilesError, goRoutines,
                   wg, mutex, report, visits, nOpened, nStatOKOpened>>

\* The dispatch loop is over and wg.Wait() returns.
Wait ==
    /\ Running /\ pc = "for"
    /\ ~(i < goRoutines)
    /\ WaitReady
    /\ pc' = "report"
    /\ UNCHANGED <<clientErr, exitCode, processFilesForGoRoutine, filesToCopy,
                   totalFilesToCopy, totalFilesOK, totalFilesError, goRoutines,
                   wg, mutex, i, start, end, gor, report, visits, nOpened,
                   nStatOKOpened>>

\* The four Printf of the summary.
Report ==
    /\ Running /\ pc = "report"
    /\ report' = [total |-> totalFilesToCopy, copied |-> totalFilesOK,
                  errors |-> totalFilesError]
    /\ pc' = "return"
    /\ UNCHANGED <<clientErr, exitCode, processFilesForGoRoutine, filesToCopy,
                   totalFilesToCopy, totalFilesOK, totalFilesError, goRoutines,
                   wg, mutex, i, start, end, gor, visits, nOpened,
                   nStatOKOpened>>

\* copyFiles returns; os.Exit(0).
Exit ==
    /\ Running /\ pc = "return"
    /\ pc' = "exit"
    /\ exitCode' = 0
    /\ UNCHANGED <<clientErr, processFilesForGoRoutine, filesToCopy, totalFilesToCopy,
                   totalFilesOK, totalFilesError, goRoutines, wg, mutex, i,
                   start, end, gor, report, visits, nOpened, nStatOKOpened>>

(***************************************************************************)
(* The goroutine.                                                          *)
(***************************************************************************)
coordVars == <<exitCode, clientErr, processFilesForGoRoutine, filesToCopy,
               totalFilesToCopy, goRoutines, i, start, end, report>>

\* Loop test and path := filesToCopy[n].  An index outside the manifest is a
\* run-time panic, which ends the process.
LoopTest(id) ==
    /\ Running /\ gor[id].pc = "for"
    /\ IF LoopCond(gor[id].n, gor[id].end)
       THEN IF gor[id].n \in 0..(Len(filesToCopy) - 1)
            THEN /\ gor' = [gor EXCEPT ![id].pc = "Stat", ![id].err = "nil",
                                       ![id].res = "", ![id].logged = <<>>,
                                       ![id].incOK = 0, ![id].incErr = 0]
                 /\ visits' = [visits EXCEPT ![gor[id].n + 1] = @ + 1]
                 /\ pc' = pc
            ELSE /\ pc' = "panic"
                 /\ UNCHANGED <<gor, visits>>
       ELSE /\ gor' = [gor EXCEPT ![id].pc = "Done"]
            /\ UNCHANGED <<pc, visits>>
    /\ UNCHANGED <<coordVars, totalFilesOK, totalFilesError, wg, mutex,
                   nOpened, nStatOKOpened>>

\* os.Stat(path); a missing file is logged and skipped.
Stat(id) ==
    /\ Running /\ gor[id].pc = "Stat"
    /\ \E err \in StatResults :
          IF IsNotExist(err)
          THEN gor' = [gor EXCEPT ![id].err = err, ![id].res = "missing",
                                  ![id].logged = Append(@, "WARNING"),
                                  ![id].n = LoopPost(@), ![id].pc = "for"]
          ELSE gor' = [gor EXCEPT ![id].err = err, ![id].pc = "Open"]
    /\ UNCHANGED <<pc, coordVars, totalFilesOK, totalFilesError, wg, mutex,
                   visits, nOpened, nStatOKOpened>>

\* os.Open(path): fmt.Errorf builds an error value and prints nothing.  On
\* success the timeout context and the writer are created.
Open(id) ==
    /\ Running /\ gor[id].pc = "Open"
    /\ \E err \in OpenResults :
          /\ IF OpenFailed(err)
             THEN gor' = [gor EXCEPT ![id].err = err, ![id].res = "os.Open",
                                     ![id].n = LoopPost(@), ![id].pc = "for"]
             ELSE gor' = [gor EXCEPT ![id].err = err, ![id].f = TRUE,
                                     ![id].ctx = TRUE,
                                     ![id].live = ~ParentDone(id),
                                     ![id].pc = "Copy"]
          /\ nOpened' = nOpened +
                (IF err = "nil" /\ gor[id].err # "ErrNotExist" THEN 1 ELSE 0)
          /\ nStatOKOpened' = nStatOKOpened +
                (IF err = "nil" /\ gor[id].err = "nil" THEN 1 ELSE 0)
    /\ UNCHANGED <<pc, coordVars, totalFilesOK, totalFilesError, wg, mutex,
                   visits>>

\* io.Copy(wc, f).  It cannot succeed under a context that is done; a
\* result of ErrDeadline is the expiry of this file's timeout.
Copy(id) ==
    /\ Running /\ gor[id].pc = "Copy"
    /\ \E err \in CopyResults :
          /\ gor[id].live \/ err # "nil"
          /\ IF err # "nil"
             THEN gor' = [gor EXCEPT ![id].err = err, ![id].res = "io.Copy",
                                     ![id].live = @ /\ err # "ErrDeadline",
                                     ![id].pc = "Lock"]
             ELSE gor' = [gor EXCEPT ![id].err = err, ![id].pc = "WriterClose"]
    /\ UNCHANGED <<pc, coordVars, totalFilesOK, totalFilesError, wg, mutex,
                   visits, nOpened, nStatOKOpened>>

\* wc.Close(); on success the [OK] line is printed.  It cannot succeed
\* under a context that is done.
WriterClose(id) ==
    /\ Running /\ gor[id].pc = "WriterClose"
    /\ \E err \in CloseResults :
          /\ gor[id].live \/ err # "nil"
          /\ IF err # "nil"
             THEN gor' = [gor EXCEPT ![id].err = err, ![id].res = "Writer.Close",
                                     ![id].live = @ /\ err # "ErrDeadline",
                                     ![id].pc = "Lock"]
             ELSE gor' = [gor EXCEPT ![id].err = err, ![id].res = "ok",
                                     ![id].logged = Append(@, "OK"),
                                     ![id].pc = "Lock"]
    /\ UNCHANGED <<pc, coordVars, totalFilesOK, totalFilesError, wg, mutex,
                   visits, nOpened, nStatOKOpened>>

\* mutex.Lock()
Lock(id) ==
    /\ Running /\ gor[id].pc = "Lock"
    /\ MutexFree
    /\ mutex' = id
    /\ gor' = [gor EXCEPT ![id].pc = "IncRead"]
    /\ UNCHANGED <<pc, coordVars, totalFilesOK, totalFilesError, wg, visits,
                   nOpened, nStatOKOpened>>

\* counter++ : the read of the counter
IncRead(id) ==
    /\ Running /\ gor[id].pc = "IncRead"
    /\ gor' = [gor EXCEPT ![id].reg = IF CounterFor(gor[id].res) = "OK"
                                      THEN totalFilesOK ELSE totalFilesError,
                          ![id].pc = "IncWrite"]
    /\ UNCHANGED <<pc, coordVars, totalFilesOK, totalFilesError, wg, mutex,
                   visits, nOpened, nStatOKOpened>>

\* counter++ : the write of the value read plus one
IncWrite(id) ==
    /\ Running /\ gor[id].pc = "IncWrite"
    /\ IF CounterFor(gor[id].res) = "OK"
       THEN /\ totalFilesOK' = gor[id].reg + 1
            /\ totalFilesError' = totalFilesError
            /\ gor' = [gor EXCEPT ![id].incOK = @ + 1, ![id].tally = @ + 1,
                                  ![id].reg = 0, ![id].pc = "Unlock"]
       ELSE /\ totalFilesError' = gor[id].reg + 1
            /\ totalFilesOK' = totalFilesOK
            /\ gor' = [gor EXCEPT ![id].incErr = @ + 1, ![id].tally = @ + 1,
                                  ![id].reg = 0, ![id].pc = "Unlock"]
    /\ UNCHANGED <<pc, coordVars, wg, mutex, visits, nOpened, nStatOKOpened>>

\* mutex.Unlock()
Unlock(id) ==
    /\ Running /\ gor[id].pc = "Unlock"
    /\ mutex' = NoOwner
    /\ gor' = [gor EXCEPT ![id].pc = "Cancel"]
    /\ UNCHANGED <<pc, coordVars, totalFilesOK, totalFilesError, wg, visits,
                   nOpened, nStatOKOpened>>

\* Mutant: the call of cancel() is missing.
CancelForgotten(id) ==
    /\ Running /\ gor[id].pc = "Cancel"
    /\ gor' = [gor EXCEPT ![id].pc = "FClose"]
    /\ UNCHANGED <<pc, coordVars, totalFilesOK, totalFilesError, wg, mutex,
                   visits, nOpened, nStatOKOpened>>

\* cancel()
Cancel(id) ==
    /\ Running /\ gor[id].pc = "Cancel"
    /\ gor' = [gor EXCEPT ![id].ctx = FALSE, ![id].live = FALSE,
                          ![id].pc = "FClose"]
    /\ UNCHANGED <<pc, coordVars, totalFilesOK, totalFilesError, wg, mutex,
                   visits, nOpened, nStatOKOpened>>

\* f.Close(), then continue / end of the loop body: n++
FClose(id) ==
    /\ Running /\ gor[id].pc = "FClose"
    /\ gor' = [gor EXCEPT ![id].f = FALSE, ![id].n = LoopPost(@), ![id].pc = "for"]
    /\ UNCHANGED <<pc, coordVars, totalFilesOK, totalFilesError, wg, mutex,
                   visits, nOpened, nStatOKOpened>>

\* wg.Done()
Done(id) ==
    /\ Running /\ gor[id].pc = "Done"
    /\ wg' = wg - 1
    /\ gor' = [gor EXCEPT ![id].pc = "done"]
    /\ UNCHANGED <<pc, coordVars, totalFilesOK, totalFilesError, mutex, visits,
                   nOpened, nStatOKOpened>>

(***************************************************************************)
(* Specifications.                                                         *)
(***************************************************************************)
Next ==
    \/ WalkFile
    \/ WalkError
    \/ WalkReturn
    \/ NewClient
    \/ ComputeGoRoutines
    \/ Dispatch
    \/ Wait
    \/ Report
    \/ Exit
    \/ \E id \in Ids : LoopTest(id)
    \/ \E id \in Ids : Stat(id)
    \/ \E id \in Ids : Open(id)
    \/ \E id \in Ids : Copy(id)
    \/ \E id \in Ids : WriterClose(id)
    \/ \E id \in Ids : Lock(id)
    \/ \E id \in Ids : IncRead(id)
    \/ \E id \in Ids : IncWrite(id)
    \/ \E id \in Ids : Unlock(id)
    \/ \E id \in Ids : Cancel(id)
    \/ \E id \in Ids : FClose(id)
    \/ \E id \in Ids : Done(id)

\* The whole program.
Spec == Init /\ [][Next]_vars

\* The steps of main / copyFiles and those of goroutine id.
MainStep ==
    \/ WalkFile
    \/ WalkError
    \/ WalkReturn
    \/ NewClient
    \/ ComputeGoRoutines
    \/ Dispatch
    \/ Wait
    \/ Report
    \/ Exit

GoroutineStep(id) ==
    /\ id \in Ids
    /\ \/ LoopTest(id)
       \/ Stat(id)
       \/ Open(id)
       \/ Copy(id)
       \/ WriterClose(id)
       \/ Lock(id)
       \/ IncRead(id)
       \/ IncWrite(id)
       \/ Unlock(id)
       \/ Cancel(id)
       \/ FClose(id)
       \/ Done(id)

\* The goroutines of the longest manifest under the smallest batch size: no
\* run of Spec has more.
GorIds == 0..(GoRoutines(MaxFiles, SmallBatch) - 1)

\* The whole program under the Go scheduler: main and every goroutine that
\* can take a step eventually takes one, and every call into the operating
\* system or the storage client returns (each is one step).
FairSpec ==
    /\ Init
    /\ [][Next]_vars
    /\ WF_vars(MainStep)
    /\ \A id \in GorIds : WF_vars(GoroutineStep(id))

\* The computation of the goroutine count and the dispatch loop alone.
NextPart ==
    \/ ComputeGoRoutines
    \/ Dispatch

SpecPart == InitPart /\ [][NextPart]_vars

(***************************************************************************)
(* Properties.                                                             *)
(***************************************************************************)
\* copyFiles has computed goRoutines (and has not been cut short by a setup
\* failure).
Computed == pc \in {"for", "report", "return", "panic"} \/ exitCode = 0

\* Every goroutine has been handed its unit.
AllHanded == Computed /\ i = goRoutines /\ \A id \in Ids : gor[id].pc # "none"

\* The manifest indexes of goroutine id's unit.
UnitOf(id) == gor[id].start .. gor[id].end

\* Every goroutine has called wg.Done().
AllDone == Ids # {} /\ \A id \in Ids : gor[id].pc = "done"

RECURSIVE TallySum(_)
\* The increments the goroutines 0..k-1 recorded themselves.
TallySum(k) == IF k = 0 THEN 0 ELSE gor[k - 1].tally + TallySum(k - 1)

\* C1: for a manifest of M >= 1 files, once every goroutine has its unit, the
\* units satisfy start <= end, unit id+1 starts at unit id's end + 1, the
\* units are pairwise disjoint and their union is exactly 0..M-1.
PartitionCoversManifest ==
    (AllHanded /\ Len(filesToCopy) >= 1) =>
        /\ Ids = 0..(goRoutines - 1)
        /\ \A id \in Ids : gor[id].start <= gor[id].end
        /\ \A id \in Ids : (id + 1) \in Ids => gor[id + 1].start = gor[id].end + 1
        /\ \A a \in Ids : \A b \in Ids : a # b => UnitOf(a) \cap UnitOf(b) = {}
        /\ UNION {UnitOf(id) : id \in Ids} = 0..(Len(filesToCopy) - 1)

\* 65 files with the source's batch size: three units, the last one [40, 64].
PartitionCoversManifestWitness ==
    /\ AllHanded
    /\ processFilesForGoRoutine = DefaultBatch
    /\ Len(filesToCopy) = 65
    /\ goRoutines = 3
    /\ gor[1].start = 20
    /\ gor[2].end = 64

\* C2: goRoutines is M / B rounded to a nearest integer r (twice the distance
\* between r * B and M is at most B), replaced by 1 when r = 0; so it is at
\* least 1; 5 files give 1 and 45 files give 2 with the source's B = 20.
GoRoutinesIsRoundedQuotient ==
    Computed =>
        /\ goRoutines >= 1
        /\ \E r \in 0..(totalFilesToCopy + 1) :
              /\ 2 * (r * processFilesForGoRoutine - totalFilesToCopy)
                    <= processFilesForGoRoutine
              /\ 2 * (totalFilesToCopy - r * processFilesForGoRoutine)
                    <= processFilesForGoRoutine
              /\ goRoutines = IF r = 0 THEN 1 ELSE r
        /\ (processFilesForGoRoutine = DefaultBatch /\ totalFilesToCopy = 5)
              => goRoutines = 1
        /\ (processFilesForGoRoutine = DefaultBatch /\ totalFilesToCopy = 45)
              => goRoutines = 2

\* 45 files, B = 20: two goroutines.
GoRoutinesIsRoundedQuotientWitness ==
    /\ Computed
    /\ processFilesForGoRoutine = DefaultBatch
    /\ totalFilesToCopy = 45
    /\ goRoutines = 2

\* C3: the unit handed to goroutine id is [0, M-1] when there is one
\* goroutine; otherwise it is [id*B, id*B + B - 1] for id < W-1 and
\* [(W-1)*B, M-1] for the last; 45 files with B = 20 give [0,19] and [20,44].
UnitRangesClosedForm ==
    Computed =>
        /\ \A id \in Ids : gor[id].pc # "none" =>
              IF goRoutines = 1
              THEN gor[id].start = 0 /\ gor[id].end = Len(filesToCopy) - 1
              ELSE IF id < goRoutines - 1
                   THEN /\ gor[id].start = id * processFilesForGoRoutine
                        /\ gor[id].end = id * processFilesForGoRoutine
                                           + processFilesForGoRoutine - 1
                   ELSE /\ gor[id].start = (goRoutines - 1) * processFilesForGoRoutine
                        /\ gor[id].end = Len(filesToCopy) - 1
        /\ (AllHanded /\ processFilesForGoRoutine = DefaultBatch
                /\ Len(filesToCopy) = 45)
              => /\ Ids = {0, 1}
                 /\ UnitOf(0) = 0..19
                 /\ UnitOf(1) = 20..44

\* 45 files, B = 20, both units handed out.
UnitRangesClosedFormWitness ==
    /\ AllHanded
    /\ processFilesForGoRoutine = DefaultBatch
    /\ Len(filesToCopy) = 45
    /\ gor[0].start = 0 /\ gor[0].end = 19
    /\ gor[1].start = 20 /\ gor[1].end = 44

\* C4: with an empty manifest no goroutine reads a manifest index (none gets
\* past its loop test, nothing panics), no file is stat'ed, opened or
\* uploaded, the counters stay 0 and the summary shows 0 / 0 / 0.
EmptyManifestTouchesNothing ==
    (pc # "getFilesToCopy" /\ Len(filesToCopy) = 0) =>
        /\ pc # "panic"
        /\ \A id \in Ids : gor[id].pc \in {"none", "for", "Done", "done"}
        /\ \A id \in Ids : ~gor[id].f /\ ~gor[id].ctx /\ gor[id].tally = 0
        /\ nOpened = 0
        /\ totalFilesOK = 0 /\ totalFilesError = 0
        /\ report # <<>> => report = [total |-> 0, copied |-> 0, errors |-> 0]

\* The run over an empty manifest has printed its summary and exited.
EmptyManifestTouchesNothingWitness ==
    /\ Len(filesToCopy) = 0
    /\ AllDone
    /\ report = [total |-> 0, copied |-> 0, errors |-> 0]
    /\ exitCode = 0

\* C5: once every goroutine is done, totalFilesOK + totalFilesError is the
\* sum of the increments the goroutines recorded themselves.
NoLostIncrement ==
    AllDone => totalFilesOK + totalFilesError = TallySum(goRoutines)

\* Two goroutines, each of which has counted two files, are done.
NoLostIncrementWitness ==
    /\ AllDone
    /\ goRoutines = 2
    /\ gor[0].tally = 2
    /\ gor[1].tally = 2
    /\ totalFilesOK = 2
    /\ totalFilesError = 2

\* C6: copyFiles is past wg.Wait(), or has printed the summary, only when
\* every goroutine is done; and the summary holds the counters' values, in
\* the state that prints it and in every later one.
ReportAfterAllDone ==
    (pc \in {"report", "return"} \/ report # <<>>) =>
        /\ AllDone
        /\ wg = 0
        /\ report # <<>> =>
              /\ report.total = totalFilesToCopy
              /\ report.copied = totalFilesOK
              /\ report.errors = totalFilesError

\* A summary after two goroutines that had successes and failures.
ReportAfterAllDoneWitness ==
    /\ report # <<>>
    /\ goRoutines = 2
    /\ report.copied >= 1
    /\ report.errors >= 1
    /\ gor[0].tally >= 1
    /\ gor[1].tally >= 1

\* C7: totalFilesOK + totalFilesError never exceeds totalFilesToCopy.
CountersWithinTotal ==
    totalFilesOK + totalFilesError <= totalFilesToCopy

\* Every file of a manifest split over two goroutines has been counted.
CountersWithinTotalWitness ==
    /\ goRoutines = 2
    /\ totalFilesToCopy >= 3
    /\ totalFilesOK + totalFilesError = totalFilesToCopy
    /\ totalFilesOK >= 1
    /\ totalFilesError >= 1

\* C8 as stated: once every goroutine is done, the counters add up to the
\* number of files whose os.Stat succeeded and that were opened.
CountedAreStatOKAndOpened ==
    AllDone => totalFilesOK + totalFilesError = nStatOKOpened

\* C8, amended: once every goroutine is done, the counters add up to the
\* number of files os.Stat did not report as missing and that were opened; a
\* file that was missing or failed to open has been counted in neither.
CountedAreNotMissingAndOpened ==
    /\ AllDone => totalFilesOK + totalFilesError = nOpened
    /\ \A id \in Ids :
          gor[id].err \in {"ErrNotExist", "ErrOpen"} =>
              gor[id].incOK = 0 /\ gor[id].incErr = 0

\* A finished run that met a missing file and a file that failed to open and
\* counted the other two.
CountedAreNotMissingAndOpenedWitness ==
    /\ AllDone
    /\ goRoutines = 2
    /\ totalFilesToCopy = 4
    /\ gor[0].err = "ErrNotExist"
    /\ gor[1].err = "ErrOpen"
    /\ nOpened = 2
    /\ totalFilesOK + totalFilesError = 2

TransferErrors == {"ErrCopy", "ErrClose", "ErrDeadline"}

\* C9: the step in which os.Stat reports the file missing prints the warning
\* line, leaves both counters alone (nothing was counted for the file) and
\* leaves the goroutine at the loop test with the next index.
MissingFileIsSkipped ==
    [][\A id \in Ids :
          (gor[id].pc = "Stat" /\ gor'[id].pc # "Stat"
                /\ gor'[id].err = "ErrNotExist") =>
              /\ gor'[id].logged = <<"WARNING">>
              /\ totalFilesOK' = totalFilesOK
              /\ totalFilesError' = totalFilesError
              /\ gor'[id].incOK = 0 /\ gor'[id].incErr = 0
              /\ gor'[id].tally = gor[id].tally
              /\ gor'[id].n = gor[id].n + 1
              /\ gor'[id].pc = "for"]_vars

\* A goroutine has skipped a missing file and has a next index in its range.
MissingFileIsSkippedWitness ==
    \E id \in Ids :
        /\ gor[id].pc = "for"
        /\ gor[id].err = "ErrNotExist"
        /\ gor[id].logged = <<"WARNING">>
        /\ gor[id].n = gor[id].start + 1
        /\ gor[id].n <= gor[id].end

\* C10: for a file whose io.Copy or Writer.Close failed, the goroutine goes
\* on to the increment, never increments totalFilesOK, increments
\* totalFilesError once (the counter rises by one in that step) and, after
\* f.Close(), stands at the loop test with the next index.
TransferErrorCountedOnce ==
    [][\A id \in Ids :
          /\ gor'[id].err \in TransferErrors =>
                /\ gor'[id].pc \in {"Lock", "IncRead", "IncWrite", "Unlock",
                                    "Cancel", "FClose", "for", "Done", "done"}
                /\ gor'[id].incOK = 0
                /\ gor'[id].incErr =
                      IF gor'[id].pc \in {"Lock", "IncRead", "IncWrite"}
                      THEN 0 ELSE 1
          /\ (gor[id].err \in TransferErrors /\ gor[id].pc = "IncWrite"
                /\ gor'[id].pc # "IncWrite") =>
                /\ totalFilesError' = totalFilesError + 1
                /\ totalFilesOK' = totalFilesOK
          /\ (gor[id].err \in TransferErrors /\ gor[id].pc = "FClose"
                /\ gor'[id].pc # "FClose") =>
                /\ gor'[id].n = gor[id].n + 1
                /\ gor'[id].pc = "for"]_vars

\* One goroutine has finished a file whose io.Copy failed, the other a file
\* whose Writer.Close failed; both have a next index.
TransferErrorCountedOnceWitness ==
    /\ goRoutines = 2
    /\ gor[0].pc = "for" /\ gor[0].err = "ErrCopy" /\ gor[0].incErr = 1
    /\ gor[0].n <= gor[0].end
    /\ gor[1].pc = "for" /\ gor[1].err = "ErrClose" /\ gor[1].incErr = 1
    /\ gor[1].n <= gor[1].end
    /\ totalFilesError = 2
    /\ totalFilesOK = 0

\* C11: no manifest index is ever read twice; a goroutine is done only with
\* its loop variable past the end of its range; and once every goroutine is
\* done, every index 0..M-1 has been read exactly once, whatever the files'
\* outcomes were.
EveryIndexProcessedOnce ==
    /\ \A k \in DOMAIN visits : visits[k] <= 1
    /\ \A id \in Ids :
          gor[id].pc \in {"Done", "done"} => gor[id].n = gor[id].end + 1
    /\ AllDone =>
          /\ DOMAIN visits = 1..Len(filesToCopy)
          /\ \A k \in DOMAIN visits : visits[k] = 1
          /\ \A k \in 0..(Len(filesToCopy) - 1) :
                Cardinality({id \in Ids : k \in UnitOf(id)}) = 1

\* Four files over two goroutines, all read, with a missing file, an open
\* failure, a transfer error and a success among them.
EveryIndexProcessedOnceWitness ==
    /\ AllDone
    /\ Len(filesToCopy) = 4
    /\ goRoutines = 2
    /\ \A k \in 1..4 : visits[k] = 1
    /\ gor[0].err = "ErrOpen"
    /\ gor[1].err = "ErrNotExist"
    /\ totalFilesOK = 1
    /\ totalFilesError = 1

\* A goroutine that stands between two files, or after its last one, having
\* finished at least one file.
FinishedAFile(id) ==
    gor[id].pc \in {"for", "Done", "done"} /\ gor[id].n > gor[id].start

\* C12: for the file a goroutine has just finished, exactly one line was
\* written to standard output, whatever the outcome.
OneLogLinePerFile ==
    \A id \in Ids : FinishedAFile(id) => Len(gor[id].logged) = 1

\* C13: once copyFiles has reached its dispatch loop, the run eventually has
\* every goroutine done, the summary printed and the process exited with
\* code 0.
RunReachesItsEnd ==
    (pc = "for") ~> (AllDone /\ wg = 0 /\ report # <<>> /\ exitCode = 0)

\* A run of three or more files over two goroutines has ended with exit code
\* 0 and a summary although no file was copied.
RunReachesItsEndWitness ==
    /\ exitCode = 0
    /\ AllDone
    /\ goRoutines = 2
    /\ report # <<>>
    /\ report.total >= 3
    /\ report.copied = 0
    /\ report.errors >= 1

\* C14: when storage.NewClient has returned an error, the process has exited
\* with code 1 and no goroutine exists, the WaitGroup was never raised, no
\* manifest index was read, both counters are 0 and no summary was printed.
ClientFailureAbortsRun ==
    clientErr = "ErrClient" =>
        /\ pc = "exit"
        /\ exitCode = 1
        /\ gor = <<>>
        /\ goRoutines = 0
        /\ wg = 0
        /\ \A k \in DOMAIN visits : visits[k] = 0
        /\ nOpened = 0
        /\ totalFilesOK = 0 /\ totalFilesError = 0
        /\ report = <<>>

\* The client could not be built for a manifest of three files.
ClientFailureAbortsRunWitness ==
    /\ clientErr = "ErrClient"
    /\ Len(filesToCopy) = 3
    /\ exitCode = 1

\* C15: no goroutine exists before wg.Add(goRoutines); from then on there are
\* exactly goRoutines of them, the dispatch loop has started the first i,
\* each with its own unit, and the WaitGroup counter is goRoutines minus the
\* number of goroutines that have called wg.Done(): it is never negative and
\* is zero exactly when every goroutine is done.
WaitGroupCountsGoroutines ==
    /\ ~Computed => (gor = <<>> /\ wg = 0)
    /\ Computed =>
          /\ goRoutines >= 1
          /\ Ids = 0..(goRoutines - 1)
          /\ i \in 0..goRoutines
          /\ \A id \in Ids : gor[id].pc # "none" <=> id < i
          /\ \A a \in Ids : \A b \in Ids :
                (a < b /\ b < i) => gor[a].start < gor[b].start
          /\ wg = goRoutines - Cardinality({id \in Ids : gor[id].pc = "done"})
          /\ wg >= 0
          /\ wg = 0 <=> AllDone

\* The first of two goroutines is done and the second is still uploading:
\* the counter stands at 1.
WaitGroupCountsGoroutinesWitness ==
    /\ goRoutines = 2
    /\ i = 2
    /\ gor[0].pc = "done"
    /\ gor[1].pc = "Copy"
    /\ wg = 1

\* The goroutine stands between mutex.Lock() and the return of
\* mutex.Unlock().
InCriticalSection(g) == g.pc \in {"IncRead", "IncWrite", "Unlock"}

\* C16: a goroutine holds the mutex exactly while it stands between Lock and
\* Unlock around one counter++ (so never during os.Stat, os.Open, io.Copy,
\* Writer.Close, cancel, f.Close, nor when it is done, and never two at a
\* time), and every step that changes totalFilesOK or totalFilesError is the
\* write of the goroutine that holds the mutex.
MutexHeldOnlyForIncrement ==
    [][/\ mutex' \in (DOMAIN gor') \cup {NoOwner}
       /\ \A id \in DOMAIN gor' : InCriticalSection(gor'[id]) <=> mutex' = id
       /\ (totalFilesOK' # totalFilesOK \/ totalFilesError' # totalFilesError) =>
             \E id \in Ids :
                /\ mutex = id /\ mutex' = id
                /\ gor[id].pc = "IncWrite"
                /\ gor'[id].pc = "Unlock"
                /\ \A o \in Ids \ {id} : gor'[o] = gor[o]]_vars

\* Goroutine 0 is about to write a counter under the mutex while goroutine 1
\* waits in mutex.Lock().
MutexHeldOnlyForIncrementWitness ==
    /\ goRoutines = 2
    /\ mutex = 0
    /\ gor[0].pc = "IncWrite"
    /\ gor[1].pc = "Lock"

\* C17: a goroutine holds a file handle and a timeout context only from the
\* successful os.Open of a file to the cancel() and f.Close() that end that
\* file's processing: at the loop test, in os.Stat and os.Open of the next
\* file, and when it is done, whatever the outcome of the file before, it
\* holds neither.
ResourcesReleasedPerFile ==
    \A id \in Ids :
        /\ gor[id].pc \in {"none", "for", "Stat", "Open", "Done", "done"} =>
              (~gor[id].f /\ ~gor[id].ctx)
        /\ gor[id].pc \in {"Copy", "WriterClose", "Lock", "IncRead", "IncWrite",
                           "Unlock", "Cancel"} =>
              (gor[id].f /\ gor[id].ctx)
        /\ gor[id].pc = "FClose" => (gor[id].f /\ ~gor[id].ctx)

\* Goroutine 0 has left a file whose io.Copy failed and has a next index;
\* goroutine 1 is done after a successful upload; neither holds anything.
ResourcesReleasedPerFileWitness ==
    /\ goRoutines = 2
    /\ gor[0].pc = "for" /\ gor[0].err = "ErrCopy" /\ gor[0].n <= gor[0].end
    /\ gor[1].pc = "done" /\ gor[1].res = "ok"
    /\ \A id \in Ids : ~gor[id].f /\ ~gor[id].ctx

\* C18: the step in which a file's timeout expires (io.Copy or Writer.Close
\* returns ErrDeadline) takes that goroutine to the failure block of that
\* file and changes nothing of any other goroutine nor of main; the timeout
\* context made for a file is live when it is made, and stays so while the
\* transfer runs, whatever timed out before in this or another goroutine; and
\* the goroutine whose file timed out goes on to its next index.
TimeoutHitsOneFileOnly ==
    [][\A id \in Ids :
          /\ (gor[id].pc \in {"Copy", "WriterClose"}
                /\ gor'[id].pc # gor[id].pc
                /\ gor'[id].err = "ErrDeadline") =>
                /\ gor'[id].pc = "Lock"
                /\ gor'[id].res \in {"io.Copy", "Writer.Close"}
                /\ \A o \in Ids \ {id} : gor'[o] = gor[o]
                /\ pc' = pc /\ exitCode' = exitCode
          /\ (gor[id].pc = "Open" /\ gor'[id].pc = "Copy") =>
                (gor'[id].ctx /\ gor'[id].live)
          /\ gor'[id].pc \in {"Copy", "WriterClose"} => gor'[id].live
          /\ (gor[id].err = "ErrDeadline" /\ gor[id].pc = "FClose"
                /\ gor'[id].pc # "FClose") =>
                /\ gor'[id].n = gor[id].n + 1
                /\ gor'[id].pc = "for"
                /\ gor'[id].incErr = 1 /\ gor'[id].incOK = 0]_vars

\* Goroutine 0 has finished a file that timed out and has a next index,
\* while the transfer of goroutine 1 is running under a live context.
TimeoutHitsOneFileOnlyWitness ==
    /\ goRoutines = 2
    /\ gor[0].pc = "for" /\ gor[0].err = "ErrDeadline"
    /\ gor[0].n <= gor[0].end
    /\ gor[1].pc = "WriterClose" /\ gor[1].ctx /\ gor[1].live

\* C19: a goroutine's loop variable only ever moves from n to n + 1, and only
\* in the step that ends the processing of index n (the skip of a missing
\* file, a failed os.Open, or f.Close()); the indexes of its unit that have
\* been read are exactly those below n, plus n while it is being processed.
\* Nothing relates the progress of two goroutines (the witness has the last
\* index finished before index 0 is started).
InOrderWithinGoroutine ==
    [][\A id \in Ids :
          /\ gor[id].pc # "none" =>
                \/ gor'[id].n = gor[id].n
                \/ /\ gor'[id].n = gor[id].n + 1
                   /\ gor[id].pc \in {"Stat", "Open", "FClose"}
                   /\ gor'[id].pc = "for"
          /\ (gor[id].pc = "for" /\ gor'[id].pc = "Stat") =>
                visits' = [visits EXCEPT ![gor[id].n + 1] = @ + 1]
          /\ gor'[id].pc # "none" =>
                \A k \in gor'[id].start .. gor'[id].end :
                   (k + 1) \in DOMAIN visits' /\
                   visits'[k + 1] =
                      IF k < gor'[id].n
                         \/ (k = gor'[id].n
                               /\ gor'[id].pc \notin {"for", "Done", "done"})
                      THEN 1 ELSE 0]_vars

\* Of four files, goroutine 1 has finished indexes 2 and 3 and is done while
\* goroutine 0 has not started index 0.
InOrderWithinGoroutineWitness ==
    /\ goRoutines = 2
    /\ Len(filesToCopy) = 4
    /\ gor[1].pc = "done" /\ gor[1].n = 4
    /\ visits[3] = 1 /\ visits[4] = 1
    /\ gor[0].pc = "for" /\ gor[0].n = 0
    /\ visits[1] = 0

\* The number of files in goroutine id's unit.
UnitSize(id) == gor[id].end - gor[id].start + 1

\* C20: once every goroutine has its unit, every unit has fewer than 1.5 * B
\* files; with the source's B = 20 that is at most 29, and when there are two
\* or more goroutines every unit but the last has exactly 20 files and the
\* last has between 10 and 29.
UnitsAreBalanced ==
    AllHanded =>
        /\ \A id \in Ids : 2 * UnitSize(id) < 3 * processFilesForGoRoutine
        /\ processFilesForGoRoutine = DefaultBatch =>
              \A id \in Ids :
                 /\ UnitSize(id) <= 29
                 /\ goRoutines >= 2 =>
                       IF id < goRoutines - 1
                       THEN UnitSize(id) = 20
                       ELSE UnitSize(id) >= 10 /\ UnitSize(id) <= 29

\* 69 files, B = 20: three units, the last one with 29 files.
UnitsAreBalancedWitness ==
    /\ AllHanded
    /\ processFilesForGoRoutine = DefaultBatch
    /\ Len(filesToCopy) = 69
    /\ goRoutines = 3
    /\ UnitSize(0) = 20
    /\ UnitSize(1) = 20
    /\ UnitSize(2) = 29

====
